---- MODULE Spec2Model ----
(***************************************************************************)
(* Bricks: listener storage and dispatch.                                  *)
(*   Listeners<T, ThreadSafe>   (include/listeners/Listeners.h)            *)
(*   Listener<T>                (include/Listener.h)                       *)
(*   Invoke<T, TResult>         (Invoke.h with the vector overloads)       *)
(*   SafeObj<T, TMutexType>     (include/threadsafety/SafeObj.h)           *)
(* A listener representation is a handle: Null (nullptr / default handle)  *)
(* or the identity of a target object, 1..NumHandles.                      *)
(* The views of the library that are specified:                            *)
(*   Spec        one Listeners<T*>, its operations and a dispatch whose    *)
(*               callbacks call back into it;                              *)
(*   SpecMT      two threads on two Listeners<T*, true> objects;           *)
(*   SpecLock    two threads on the members that lock what they touch,     *)
(*               with a dispatch; SpecLockLive adds fairness;              *)
(*   SpecHolder  one Listener<T> for T a plain, shared or weak handle;     *)
(*   SpecHolderMT  three threads calling one Listener<T>;                  *)
(*   SpecWeak    Listener<std::weak_ptr<T>> and Invoke<std::weak_ptr<T>>   *)
(*               over a vector of weak handles whose targets die;          *)
(*   SpecKeyed   one Listeners<std::unique_ptr<T>> and its keys;           *)
(*   SpecFlag    one thread on a Listeners<T, false> and a                 *)
(*               Listeners<T, true> side by side.                          *)
(***************************************************************************)
EXTENDS Integers, Sequences, FiniteSets, TLC

\* ---------------------------------------------------------------- bounds
NumHandles == 3        \* distinct listener targets
MaxCbOps == 2          \* add/remove/clear calls made by callbacks of one dispatch
NumShared == 1         \* handles the threads add and remove
MaxTorn == 2           \* longest vector a data race leaves behind
NumTargets == 2        \* target objects a Listener<T> or a weak vector refers to
MaxWeak == 2           \* longest vector of weak handles handed to Invoke
NumArgs == 2           \* handles the threads of the locking view add and remove

\* nullptr
Null == 0

\* the owner of a mutex nobody holds
NoThread == "none"

Handles == 1..NumHandles
Reps == Handles \cup {Null}

Targets == 1..NumTargets

\* T of Listener<T> / Invoke<T>: T*, std::shared_ptr<T>, std::weak_ptr<T>
Kinds == {"plain", "shared", "weak"}

VARIABLES
    listeners,   \* Listeners::_listeners, the std::vector<T>
    pc,          \* position of Listeners::invoke: "idle", "loop", "call", "done"
    i,           \* Invoke::make(vector): size_t i
    size,        \* Invoke::make(vector): const size_t size
    calls,       \* history: the targets called by the current dispatch, in order
    start,       \* history: the vector when the current dispatch began
    cbLog,       \* history: <<caller, op, arg>> of every call a callback made
    last,        \* history: the last Listeners operation, [op, arg, res]
    pre,         \* history: the vector right before the last operation
    firstAdded,  \* history: the first element ever added before the last
                 \* operation, Null when none was
    coll,        \* threads: _listeners of the shared Listeners objects "a", "b"
    mtx,         \* threads: SafeObj::_mtx of each, [owner, depth]
    tpc,         \* threads: each thread's position, "idle", "wait", "in", "take"
    top,         \* threads: the operation each thread is in, [name, c, o, x]
    built,       \* threads: the vector of the temporary the last constructor
                 \* built; it is destroyed when the next member call begins
    raced,       \* threads: threads whose access in progress was raced
    disp,        \* threads: each thread's Listeners::invoke in progress,
                 \* [i, size, cb, cx]
    foreign,     \* threads, history: another thread changed a vector while a
                 \* dispatch on it was in progress
    watch,       \* threads, history: the values the source had since each
                 \* thread's copy in progress began
    copied,      \* threads, history: the last finished copy, [by, op, seen, src, dst]
    removed,     \* threads, history: per object, the handles a remove called
                 \* outside a dispatch has erased and nothing has stored since
    kind,        \* the handle type T the templates are instantiated with
    slot,        \* Listener::_listener
    owned,       \* targets some shared_ptr outside the library still owns
    hcalls,      \* history: the targets called by the last Listener::invoke
    hlast,       \* history: the last Listener operation,
                 \* [op, arg, res, after, live]
    cleared,     \* history: reset() ran and no non-null handle was set since
    moved,       \* _listener of the Listener the last move built or assigned
    caller,      \* callers of one Listener: each one's call in progress,
                 \* [pc, name, x, snap, called, fault, seen, ov]
    hmtx,        \* callers: the owner of Listener::_listener's mutex
    lastSet,     \* callers, history: the argument of the last write to the slot
    gone,        \* callers, history: the targets destroyed so far
    keyed,       \* Listeners<std::unique_ptr<T>>::_listeners: the addresses of
                 \* the objects the stored unique_ptrs own
    klast,       \* history: the last call on the keyed Listeners,
                 \* [op, arg, res, had, again]
    kpre,        \* history: the keyed vector right before the last call
    klive,       \* history: keys add returned and no remove has returned since
    kremoved,    \* history: keys some remove has returned
    same         \* history: a Listeners<T, true> and a Listeners<T, false>
                 \* driven by one thread with the same calls have returned
                 \* the same results and made the same callback calls so far

collVars == <<listeners, pc, i, size, calls, start, cbLog, last, pre, firstAdded>>

lkVars == <<disp, foreign, watch, copied, removed>>

mtVars == <<coll, mtx, tpc, top, built, raced, lkVars>>

hVars == <<kind, slot, owned, hcalls, hlast, cleared, moved>>

hcVars == <<caller, hmtx, lastSet, gone>>

kVars == <<keyed, klast, kpre, klive, kremoved, same>>

vars == <<collVars, mtVars, hVars, hcVars, kVars>>

dispatchVars == <<pc, i, size, calls, start>>

\* ------------------------------------------------------- std::vector<T>
\* std::find: the 1-based position of the first element equal to x, 0 for end()
find(s, x) ==
    IF \E k \in 1..Len(s) : s[k] = x
    THEN CHOOSE k \in 1..Len(s) : s[k] = x /\ \A j \in 1..(k - 1) : s[j] # x
    ELSE 0

\* std::vector::erase(it)
erase(s, k) == SubSeq(s, 1, k - 1) \o SubSeq(s, k + 1, Len(s))

Elems(s) == {s[k] : k \in 1..Len(s)}

Count(s, x) == Cardinality({k \in 1..Len(s) : s[k] = x})

\* ------------------------------------------------------------ Listeners
\* Listeners::add on the vector s: the vector after the call and the AddResult
add_mutNoScan(s, x) ==
    IF x # Null
    THEN [seq |-> Append(s, x), res |-> IF Len(s) = 0 THEN "OkFirst" ELSE "Ok"]
    ELSE [seq |-> s, res |-> "NullInput"]

add_mutNullOk(s, x) ==
    IF find(s, x) = 0
    THEN [seq |-> Append(s, x), res |-> IF Len(s) = 0 THEN "OkFirst" ELSE "Ok"]
    ELSE [seq |-> s, res |-> "Duplicate"]

add_mutAlwaysOk(s, x) ==
    IF x # Null
    THEN IF find(s, x) = 0
         THEN [seq |-> Append(s, x), res |-> "Ok"]
         ELSE [seq |-> s, res |-> "Duplicate"]
    ELSE [seq |-> s, res |-> "NullInput"]

add_mutFront(s, x) ==
    IF x # Null
    THEN IF find(s, x) = 0
         THEN [seq |-> <<x>> \o s,
               res |-> IF Len(s) = 0 THEN "OkFirst" ELSE "Ok"]
         ELSE [seq |-> s, res |-> "Duplicate"]
    ELSE [seq |-> s, res |-> "NullInput"]

add(s, x) ==
    IF x # Null
    THEN IF find(s, x) = 0
         THEN [seq |-> Append(s, x),
               res |-> IF Len(Append(s, x)) = 1 THEN "OkFirst" ELSE "Ok"]
         ELSE [seq |-> s, res |-> "Duplicate"]
    ELSE [seq |-> s, res |-> "NullInput"]

\* Listeners::remove
remove_mutOkLastFirst(s, x) ==
    IF x # Null /\ find(s, x) # 0
    THEN [seq |-> erase(s, find(s, x)),
          res |-> IF find(s, x) = Len(s) THEN "OkLast" ELSE "Ok"]
    ELSE [seq |-> s, res |-> "NullInput"]

remove_mutEraseFront(s, x) ==
    IF x # Null /\ s # <<>>
    THEN [seq |-> erase(s, 1),
          res |-> IF Len(erase(s, 1)) = 0 THEN "OkLast" ELSE "Ok"]
    ELSE [seq |-> s, res |-> "NullInput"]

remove_mutNeverLast(s, x) ==
    IF x # Null /\ find(s, x) # 0
    THEN [seq |-> erase(s, find(s, x)), res |-> "Ok"]
    ELSE [seq |-> s, res |-> "NullInput"]

remove(s, x) ==
    IF x # Null /\ find(s, x) # 0
    THEN [seq |-> erase(s, find(s, x)),
          res |-> IF Len(erase(s, find(s, x))) = 0 THEN "OkLast" ELSE "Ok"]
    ELSE [seq |-> s, res |-> "NullInput"]

\* Listeners::contains
contains_mutAny(s, x) == x # Null /\ Len(s) # 0

contains(s, x) == IF x # Null THEN find(s, x) # 0 ELSE FALSE

\* Listeners::clear
clear_mutAlwaysTrue(s) == [seq |-> <<>>, res |-> "true"]

clear(s) == [seq |-> <<>>, res |-> IF Len(s) # 0 THEN "true" ELSE "false"]

\* Listeners::empty, Listeners::size
empty(s) == Len(s) = 0

sizeOf(s) == Len(s)

\* ok(AddResult), ok(RemoveResult)
ok_mutOkOnly(r) == r = "Ok"

ok(r) == r \in {"Ok", "OkFirst", "OkLast"}

Bool(b) == IF b THEN "true" ELSE "false"

NoOp == [op |-> "none", arg |-> Null, res |-> "none"]

\* firstAdded once the operation in `last` is no longer the last one
Seen == IF firstAdded = Null /\ last.op = "add" /\ ok(last.res) THEN last.arg ELSE firstAdded

Outside == pc = "idle"

InCallback == pc = "call"

\* the target whose callback is running
cur == calls[Len(calls)]

\* ------------------------------------------------- operations, top level
Add(x) ==
    /\ Outside
    /\ listeners' = add(listeners, x).seq
    /\ last' = [op |-> "add", arg |-> x, res |-> add(listeners, x).res]
    /\ pre' = listeners
    /\ firstAdded' = Seen
    /\ UNCHANGED <<dispatchVars, cbLog>>
    /\ UNCHANGED <<mtVars, hVars, hcVars, kVars>>

Remove(x) ==
    /\ Outside
    /\ listeners' = remove(listeners, x).seq
    /\ last' = [op |-> "remove", arg |-> x, res |-> remove(listeners, x).res]
    /\ pre' = listeners
    /\ firstAdded' = Seen
    /\ UNCHANGED <<dispatchVars, cbLog>>
    /\ UNCHANGED <<mtVars, hVars, hcVars, kVars>>

Contains(x) ==
    /\ Outside
    /\ last' = [op |-> "contains", arg |-> x, res |-> Bool(contains(listeners, x))]
    /\ pre' = listeners
    /\ firstAdded' = Seen
    /\ UNCHANGED <<listeners, dispatchVars, cbLog>>
    /\ UNCHANGED <<mtVars, hVars, hcVars, kVars>>

Clear ==
    /\ Outside
    /\ listeners' = clear(listeners).seq
    /\ last' = [op |-> "clear", arg |-> Null, res |-> clear(listeners).res]
    /\ pre' = listeners
    /\ firstAdded' = Seen
    /\ UNCHANGED <<dispatchVars, cbLog>>
    /\ UNCHANGED <<mtVars, hVars, hcVars, kVars>>

Empty ==
    /\ Outside
    /\ last' = [op |-> "empty", arg |-> Null, res |-> Bool(empty(listeners))]
    /\ pre' = listeners
    /\ firstAdded' = Seen
    /\ UNCHANGED <<listeners, dispatchVars, cbLog>>
    /\ UNCHANGED <<mtVars, hVars, hcVars, kVars>>

\* --------------------------------------------------------------- dispatch
\* a target lives while a shared_ptr owns it: one outside the library or, in
\* Listener<std::shared_ptr<T>>, the stored one; a T* target outlives its use
\* the handle Invoke::make calls through owns the target: the temporary
\* std::atomic_load(&_listener) or listener.lock() returned, not a T*
HoldsTemp_mutNever(k) == FALSE

HoldsTemp(k) == k \in {"shared", "weak"}

\* a shared_ptr to t exists: one outside the library, the slot of a
\* Listener<std::shared_ptr<T>>, the argument of a set that has not stored it
\* yet, or the temporary of an invoke whose callback has not returned
Alive(t) ==
    /\ t # Null
    /\ \/ t \in owned
       \/ kind = "shared" /\ t \in {slot, moved}
       \/ kind = "shared" /\ \E c \in DOMAIN caller :
              caller[c].name = "set" /\ caller[c].pc \in {"enter", "set"} /\ caller[c].x = t
       \/ HoldsTemp(kind) /\ \E c \in DOMAIN caller :
              caller[c].name = "invoke" /\ caller[c].pc = "use" /\ caller[c].snap = t

\* the targets whose last shared_ptr this step destroys
Destroyed == {t \in owned \cup {slot} \cup {caller[c].snap : c \in DOMAIN caller} :
                 Alive(t) /\ ~Alive(t)'}

\* std::weak_ptr::lock: the handle while the target lives, else an empty one
lockWeak_mutExpired(h) == h

lockWeak(h) == IF Alive(h) THEN h ELSE Null

\* Invoke<T>::make(listener, ...): is the method called through h.
\* if (listener) ..., for std::weak_ptr Forward::make(listener.lock(), ...)
make_mutNever(h) == FALSE

make(h) == IF kind = "weak" THEN lockWeak(h) # Null ELSE h # Null

\* Invoke<T>::empty: nullptr == listener, for std::weak_ptr listener.expired()
emptyOf_mutNull(h) == h = Null

emptyOf(h) == IF kind = "weak" THEN lockWeak(h) = Null ELSE h = Null

\* Listeners::invoke: the read lock, then if (!listeners.empty()) { i = 0; ...
BeginInvoke ==
    /\ Outside
    /\ pc' = IF Len(listeners) # 0 THEN "loop" ELSE "done"
    /\ i' = 0
    /\ size' = 0
    /\ calls' = <<>>
    /\ start' = listeners
    /\ cbLog' = <<>>
    /\ last' = [op |-> "invoke", arg |-> Null, res |-> "none"]
    /\ pre' = listeners
    /\ firstAdded' = Seen
    /\ UNCHANGED listeners
    /\ UNCHANGED <<mtVars, hVars, hcVars, kVars>>

\* the post-call test: if (listeners.size() >= size) ++i
advance_mutAlways(n, sz, idx) == idx + 1

advance_mutSkip(n, sz, idx) == idx + 2

advance_mutGreater(n, sz, idx) == IF n > sz THEN idx + 1 ELSE idx

advance_mutNever(n, sz, idx) == idx

advance(n, sz, idx) == IF n >= sz THEN idx + 1 ELSE idx

\* const size_t size = listeners.size(); if (i < size) make(listeners[i], ...)
LoopStep ==
    /\ pc = "loop"
    /\ size' = Len(listeners)
    /\ IF i < Len(listeners)
       THEN IF make(listeners[i + 1])
            THEN /\ calls' = Append(calls, listeners[i + 1])
                 /\ pc' = "call"
                 /\ i' = i
            ELSE /\ i' = advance(Len(listeners), Len(listeners), i)
                 /\ UNCHANGED <<calls, pc>>
       ELSE /\ pc' = "done"
            /\ UNCHANGED <<calls, i>>
    /\ UNCHANGED <<listeners, start, cbLog, last, pre, firstAdded>>
    /\ UNCHANGED <<mtVars, hVars, hcVars, kVars>>

\* the callback returns
Return ==
    /\ pc = "call"
    /\ i' = advance(Len(listeners), size, i)
    /\ pc' = "loop"
    /\ UNCHANGED <<listeners, size, calls, start, cbLog, last, pre, firstAdded>>
    /\ UNCHANGED <<mtVars, hVars, hcVars, kVars>>

\* Listeners::invoke returns: the read lock is released
EndInvoke ==
    /\ pc = "done"
    /\ pc' = "idle"
    /\ i' = 0
    /\ size' = 0
    /\ calls' = <<>>
    /\ start' = <<>>
    /\ cbLog' = <<>>
    /\ UNCHANGED <<listeners, last, pre, firstAdded>>
    /\ UNCHANGED <<mtVars, hVars, hcVars, kVars>>

\* ------------------------------ operations called by the running callback
CbAdd(x) ==
    /\ InCallback
    /\ Len(cbLog) < MaxCbOps
    /\ listeners' = add(listeners, x).seq
    /\ last' = [op |-> "add", arg |-> x, res |-> add(listeners, x).res]
    /\ pre' = listeners
    /\ firstAdded' = Seen
    /\ cbLog' = Append(cbLog, <<cur, "add", x>>)
    /\ UNCHANGED dispatchVars
    /\ UNCHANGED <<mtVars, hVars, hcVars, kVars>>

CbRemove(x) ==
    /\ InCallback
    /\ Len(cbLog) < MaxCbOps
    /\ listeners' = remove(listeners, x).seq
    /\ last' = [op |-> "remove", arg |-> x, res |-> remove(listeners, x).res]
    /\ pre' = listeners
    /\ firstAdded' = Seen
    /\ cbLog' = Append(cbLog, <<cur, "remove", x>>)
    /\ UNCHANGED dispatchVars
    /\ UNCHANGED <<mtVars, hVars, hcVars, kVars>>

CbClear ==
    /\ InCallback
    /\ Len(cbLog) < MaxCbOps
    /\ listeners' = clear(listeners).seq
    /\ last' = [op |-> "clear", arg |-> Null, res |-> clear(listeners).res]
    /\ pre' = listeners
    /\ firstAdded' = Seen
    /\ cbLog' = Append(cbLog, <<cur, "clear", Null>>)
    /\ UNCHANGED dispatchVars
    /\ UNCHANGED <<mtVars, hVars, hcVars, kVars>>

\* ------------------------------------ Listeners<std::unique_ptr<T>, ...>
\* key(listener): reinterpret_cast<uint64_t>(listener.get()); the address of
\* an object is its handle, nullptr is 0
key(h) == h

\* the index of the first entry whose key is k, 0 when the for loop runs out
keyIndex(s, k) ==
    IF \E n \in 1..Len(s) : key(s[n]) = k
    THEN CHOOSE n \in 1..Len(s) : key(s[n]) = k /\ \A j \in 1..(n - 1) : key(s[j]) # k
    ELSE 0

\* Listeners<std::unique_ptr<T>>::add: the vector and the key returned
keyedAdd(s, x) ==
    IF key(x) # 0 THEN [seq |-> Append(s, x), res |-> key(x)]
                  ELSE [seq |-> s, res |-> key(x)]

\* Listeners<std::unique_ptr<T>>::remove
keyedRemove_mutLast(s, k) ==
    IF k # 0 /\ Len(s) # 0 /\ keyIndex(s, k) # 0
    THEN [seq |-> erase(s, Len(s)), res |-> k]
    ELSE [seq |-> s, res |-> 0]

keyedRemove(s, k) ==
    IF k # 0 /\ Len(s) # 0 /\ keyIndex(s, k) # 0
    THEN [seq |-> erase(s, keyIndex(s, k)), res |-> k]
    ELSE [seq |-> s, res |-> 0]

\* Listeners<std::unique_ptr<T>>::contains
keyedContains(s, k) == k # 0 /\ Len(s) # 0 /\ keyIndex(s, k) # 0

NoKeyedOp == [op |-> "none", arg |-> 0, res |-> 0, had |-> FALSE, again |-> FALSE]

\* add(std::unique_ptr<T>): the argument is null or owns an object, and an
\* object a stored unique_ptr owns has no second owner; the address of an
\* object that was destroyed may be the address of a later one
KeyedAdd(x) ==
    /\ x = Null \/ x \notin Elems(keyed)
    /\ keyed' = keyedAdd(keyed, x).seq
    /\ klast' = [op |-> "add", arg |-> x, res |-> keyedAdd(keyed, x).res,
                 had |-> x \in klive, again |-> x \in kremoved]
    /\ kpre' = keyed
    /\ klive' = IF keyedAdd(keyed, x).res # 0 THEN klive \cup {keyedAdd(keyed, x).res}
                 ELSE klive
    /\ UNCHANGED <<kremoved, same>>
    /\ UNCHANGED <<collVars, mtVars, hVars, hcVars>>

\* remove(uint64_t listenerKeyId); the erased unique_ptr destroys its object
KeyedRemove(k) ==
    /\ keyed' = keyedRemove(keyed, k).seq
    /\ klast' = [op |-> "remove", arg |-> k, res |-> keyedRemove(keyed, k).res,
                 had |-> k \in klive, again |-> k \in kremoved]
    /\ kpre' = keyed
    /\ klive' = klive \ {keyedRemove(keyed, k).res}
    /\ kremoved' = IF keyedRemove(keyed, k).res # 0
                   THEN kremoved \cup {keyedRemove(keyed, k).res} ELSE kremoved
    /\ UNCHANGED <<same, collVars, mtVars, hVars, hcVars>>

\* contains(uint64_t listenerKeyId)
KeyedContains(k) ==
    /\ klast' = [op |-> "contains", arg |-> k,
                 res |-> IF keyedContains(keyed, k) THEN 1 ELSE 0,
                 had |-> k \in klive, again |-> k \in kremoved]
    /\ kpre' = keyed
    /\ UNCHANGED <<keyed, klive, kremoved, same>>
    /\ UNCHANGED <<collVars, mtVars, hVars, hcVars>>

\* Listeners<std::unique_ptr<T>>::Listeners(): reserve(1), an empty vector
InitKeyed ==
    /\ keyed = <<>>
    /\ klast = NoKeyedOp
    /\ kpre = <<>>
    /\ klive = {}
    /\ kremoved = {}

\* the keys callers pass: 0, addresses of objects, and one no object ever had
Keys == 0..(NumHandles + 1)

NextKeyed ==
    \/ \E x \in Reps : KeyedAdd(x)
    \/ \E k \in Keys : KeyedRemove(k)
    \/ \E k \in Keys : KeyedContains(k)

\* ------------------------------------------------------------ Listener<T>
NoHolderOp ==
    [op |-> "none", arg |-> Null, res |-> "none", after |-> "none", live |-> FALSE,
     held |-> Null, dead |-> FALSE]

\* the stored handle is not null and its target is gone
Dangling(h) == h # Null /\ ~Alive(h)

\* Listener::set: _listener = std::move(listener) / std::atomic_exchange
set_mutStale(s, x) == s

set(s, x) == x

\* Listener::reset: set({})
reset_mutKeep(s) == s

reset(s) == set(s, Null)

\* a shared_ptr handed to set owns a living target
HolderSet(x) ==
    /\ kind = "shared" => x = Null \/ Alive(x)
    /\ slot' = set(slot, x)
    /\ hlast' = [op |-> "set", arg |-> x, res |-> "none", after |-> "none",
                 live |-> x # Null /\ Alive(x), held |-> set(slot, x),
                 dead |-> Dangling(x)]
    /\ hcalls' = <<>>
    /\ cleared' = (cleared /\ x = Null)
    /\ UNCHANGED <<kind, owned, moved, collVars, mtVars, hcVars, kVars>>

HolderReset ==
    /\ slot' = reset(slot)
    /\ hlast' = [op |-> "reset", arg |-> slot, res |-> "none", after |-> "none",
                 live |-> slot # Null /\ Alive(slot), held |-> reset(slot),
                 dead |-> FALSE]
    /\ hcalls' = <<>>
    /\ cleared' = TRUE
    /\ UNCHANGED <<kind, owned, moved, collVars, mtVars, hcVars, kVars>>

\* Listener::empty
HolderEmpty ==
    /\ hlast' = [op |-> "empty", arg |-> hlast.arg, res |-> Bool(emptyOf(slot)),
                 after |-> hlast.op, live |-> hlast.live, held |-> slot,
                 dead |-> Dangling(slot)]
    /\ hcalls' = <<>>
    /\ UNCHANGED <<kind, slot, owned, cleared, moved, collVars, mtVars, hcVars, kVars>>

\* Listener::invoke: Invoke<T>::make(_listener.constRef(), method, args...);
\* res records whether the stored handle had no living target at that moment
HolderInvoke ==
    /\ hcalls' = IF make(slot) THEN <<slot>> ELSE <<>>
    /\ hlast' = [op |-> "invoke", arg |-> hlast.arg,
                 res |-> Bool(slot = Null \/ ~Alive(slot)),
                 after |-> hlast.op, live |-> hlast.live, held |-> slot,
                 dead |-> Dangling(slot)]
    /\ UNCHANGED <<kind, slot, owned, cleared, moved, collVars, mtVars, hcVars, kVars>>

\* TResult(): the value-initialized result
DefaultR == "default"

\* the values the invoked method can return
Results == {DefaultR, "value"}

\* Invoke<T, TResult>::make(listener, ...): the method's result r when the
\* method is called, TResult() otherwise
makeR_mutCall(h, r) == r

makeR(h, r) == IF make(h) THEN r ELSE DefaultR

\* Listener::invokeR: Invoke<T, R>::make(_listener.constRef(), method, args...);
\* r is what the method returns if it is called
HolderInvokeR(r) ==
    /\ hcalls' = IF make(slot) THEN <<slot>> ELSE <<>>
    /\ hlast' = [op |-> "invokeR", arg |-> hlast.arg, res |-> makeR(slot, r),
                 after |-> hlast.op, live |-> hlast.live, held |-> slot,
                 dead |-> Dangling(slot)]
    /\ UNCHANGED <<kind, slot, owned, cleared, moved, collVars, mtVars, hcVars, kVars>>

\* SafeObj::take: return std::move(_obj). val is the value handed out, left
\* what the SafeObj keeps: a moved-from shared_ptr or weak_ptr is empty, a
\* moved-from T* is the same pointer
take(s) == [val |-> s, left |-> IF kind = "plain" THEN s ELSE Null]

\* Listener::Listener(Listener&&): _listener = tmp._listener.take(), for
\* shared_ptr set(std::move(tmp._listener)); tmp is this Listener
HolderMoveCtor ==
    /\ moved' = take(slot).val
    /\ slot' = take(slot).left
    /\ hlast' = [op |-> "moveCtor", arg |-> slot, res |-> "none", after |-> hlast.op,
                 live |-> slot # Null /\ Alive(slot), held |-> take(slot).left,
                 dead |-> FALSE]
    /\ hcalls' = <<>>
    /\ UNCHANGED <<kind, owned, cleared, collVars, mtVars, hcVars, kVars>>

\* Listener::operator=(Listener&&) of another Listener: set(tmp._listener.take())
HolderMoveAssign ==
    /\ moved' = set(moved, take(slot).val)
    /\ slot' = take(slot).left
    /\ hlast' = [op |-> "moveAssign", arg |-> slot, res |-> "none", after |-> hlast.op,
                 live |-> slot # Null /\ Alive(slot), held |-> take(slot).left,
                 dead |-> FALSE]
    /\ hcalls' = <<>>
    /\ UNCHANGED <<kind, owned, cleared, collVars, mtVars, hcVars, kVars>>

\* the last shared_ptr outside the library lets go of target t
Release(t) ==
    /\ kind # "plain"
    /\ Outside
    /\ t \in owned
    /\ owned' = owned \ {t}
    /\ UNCHANGED <<kind, slot, hcalls, hlast, cleared, moved, collVars, mtVars, hcVars, kVars>>

InitSlot ==
    /\ slot = Null
    /\ owned = Targets
    /\ hcalls = <<>>
    /\ hlast = NoHolderOp
    /\ cleared = FALSE
    /\ moved = Null

\* the vectors a caller hands to Invoke<std::weak_ptr<T>>::make
WeakVectors == UNION {[1..n -> Targets \cup {Null}] : n \in 0..MaxWeak}

\* ------------------------------------------- callers of one Listener<T>
\* Three threads call set, reset and invoke on one Listener. A call is issued
\* ("enter"), takes the lock where the code has one, runs its body and returns.
Callers == {"t1", "t2", "t3"}

NoCaller ==
    [pc |-> "idle", name |-> "none", x |-> Null, snap |-> Null, called |-> Null,
     fault |-> FALSE, seen |-> {}, ov |-> FALSE]

\* Listener<T> guards _listener with LOCK_WRITE_SAFE_OBJ / LOCK_READ_SAFE_OBJ,
\* Listener<std::shared_ptr<T>> uses std::atomic_exchange / std::atomic_load
NeedsLock_mutNever(k) == FALSE

NeedsLock_mutAlways(k) == TRUE

NeedsLock(k) == k # "shared"

Setting(u) == caller[u].name \in {"set", "reset"} /\ caller[u].pc \in {"enter", "set"}

Invoking(u) == caller[u].name = "invoke" /\ caller[u].pc \in {"enter", "test", "use"}

\* a caller issues a call; ov marks the calls that overlap a set or a reset
Issue(c, name, x) ==
    /\ caller[c].pc = "idle"
    /\ caller' = [u \in Callers |->
          IF u = c
          THEN [NoCaller EXCEPT !.pc = "enter", !.name = name, !.x = x,
                                !.seen = IF name = "invoke" THEN {slot} ELSE {},
                                !.ov = \E v \in Callers \ {c} : Setting(v)]
          ELSE IF caller[u].pc \in {"enter", "set", "test", "use"} /\ name # "invoke"
          THEN [caller[u] EXCEPT !.ov = TRUE]
          ELSE caller[u]]
    /\ UNCHANGED <<hmtx, lastSet, gone, hVars, collVars, mtVars, kVars>>

\* Listener::set
CallSet(c, x) == Issue(c, "set", x)

\* Listener::reset: set({})
CallReset(c) == Issue(c, "reset", reset(slot))

\* Listener::invoke
CallInvoke(c) == Issue(c, "invoke", Null)

\* LOCK_WRITE_SAFE_OBJ(_listener) / LOCK_READ_SAFE_OBJ(_listener): both are a
\* std::lock_guard on the std::recursive_mutex
Acquire(c) ==
    /\ caller[c].pc = "enter"
    /\ IF NeedsLock(kind)
       THEN hmtx = NoThread /\ hmtx' = c
       ELSE UNCHANGED hmtx
    /\ caller' = [caller EXCEPT ![c].pc = IF caller[c].name = "invoke" THEN "test" ELSE "set"]
    /\ UNCHANGED <<lastSet, gone, hVars, collVars, mtVars, kVars>>

\* _listener = std::move(listener) / std::atomic_exchange(&_listener, ...)
Write(c) ==
    /\ caller[c].pc = "set"
    /\ slot' = set(slot, caller[c].x)
    /\ lastSet' = caller[c].x
    /\ caller' = [u \in Callers |->
          IF u = c THEN [caller[c] EXCEPT !.pc = "ret"]
          ELSE IF Invoking(u) THEN [caller[u] EXCEPT !.seen = @ \cup {caller[c].x}]
          ELSE caller[u]]
    /\ UNCHANGED <<hmtx, kind, owned, hcalls, hlast, cleared, moved, collVars, mtVars, kVars>>
    /\ gone' = gone \cup Destroyed

\* Invoke<T>::make: if (listener); the shared and weak forms test a temporary,
\* std::atomic_load(&_listener) or listener.lock()
Test(c) ==
    /\ caller[c].pc = "test"
    /\ LET v == IF kind = "weak" THEN lockWeak(slot) ELSE slot IN
       caller' = [caller EXCEPT ![c].snap = v,
                                ![c].pc = IF v # Null THEN "use" ELSE "ret"]
    /\ UNCHANGED <<hmtx, lastSet, gone, hVars, collVars, mtVars, kVars>>

\* ((*listener).*method)(args...): for T* listener is a reference to the slot,
\* read again here; the shared and weak forms call through the temporary
Use(c) ==
    /\ caller[c].pc = "use"
    /\ LET v == IF kind = "plain" THEN slot ELSE caller[c].snap IN
       caller' = [caller EXCEPT ![c].called = v, ![c].fault = (v = Null), ![c].pc = "ret"]
    /\ UNCHANGED <<hmtx, lastSet, hVars, collVars, mtVars, kVars>>
    /\ gone' = gone \cup Destroyed

\* the call returns: the lock guard, if any, goes out of scope
Leave(c) ==
    /\ caller[c].pc = "ret"
    /\ hmtx' = IF hmtx = c THEN NoThread ELSE hmtx
    /\ caller' = [caller EXCEPT ![c] = NoCaller]
    /\ UNCHANGED <<lastSet, gone, hVars, collVars, mtVars, kVars>>

\* the last shared_ptr outside the library that owns t is destroyed while
\* the callers use the Listener (for a T*, the object is deleted)
Drop(t) ==
    /\ t \in owned
    /\ owned' = owned \ {t}
    /\ UNCHANGED <<kind, slot, hcalls, hlast, cleared, moved>>
    /\ UNCHANGED <<caller, hmtx, lastSet, collVars, mtVars, kVars>>
    /\ gone' = gone \cup Destroyed

\* set(x) by a caller: a shared_ptr handed to set is a copy of one outside
LifeSet(c, x) ==
    /\ kind = "shared" => (x = Null \/ x \in owned)
    /\ CallSet(c, x)

InitCallers ==
    /\ caller = [c \in Callers |-> NoCaller]
    /\ hmtx = NoThread
    /\ lastSet = Null
    /\ gone = {}

\* ------------------------------------------------------------- threads
\* Two threads working on two shared Listeners<T, true> objects. An operation
\* takes its locks when it begins and releases them when it ends; the moved-
\* from object of a move is read and emptied without its lock.
Threads == {"t1", "t2"}

Objs == {"a", "b"}

Shared == 1..NumShared

\* what a vector read or written during a data race may hold afterwards
Torn == UNION {[1..n -> Shared] : n \in 0..MaxTorn}

NoCall == [name |-> "none", c |-> "a", o |-> "a", x |-> Null]

\* a mutex that never makes anyone wait
CanLock_mutAlways(t, c) == TRUE

\* a plain std::mutex: a second lock by the owning thread waits as well
CanLock_mutPlain(t, c) == mtx[c].owner = NoThread

\* std::recursive_mutex, taken by std::lock_guard (ReadLock and WriteLock alike)
CanLock(t, c) == mtx[c].owner \in {NoThread, t}

lock(m, t, c) == [m EXCEPT ![c] = [owner |-> t, depth |-> m[c].depth + 1]]

unlock(m, c) ==
    [m EXCEPT ![c] = IF m[c].depth = 1
                     THEN [owner |-> NoThread, depth |-> 0]
                     ELSE [owner |-> m[c].owner, depth |-> m[c].depth - 1]]

\* leaving the scope of the lock guards: every lock of t is released
unlockAll(m, t) == [c \in Objs |-> IF m[c].owner = t THEN unlock(m, c)[c] ELSE m[c]]

\* the vectors a thread is writing / reading at this moment
Writes(u) ==
    IF tpc[u] \notin {"in", "take"} THEN {}
    ELSE IF top[u].name \in {"add", "remove", "clear", "copyAssign"} THEN {top[u].c}
    ELSE IF top[u].name = "moveAssign" THEN {top[u].c, top[u].o}
    ELSE IF top[u].name = "moveCtor" THEN {top[u].o}
    ELSE {}

Reads(u) ==
    IF tpc[u] = "in" /\ top[u].name \in {"copyAssign", "copyCtor"} THEN {top[u].o} ELSE {}

\* conflicting accesses of two threads to one vector, none ordered by a lock
Racers(t) ==
    {u \in Threads \ {t} :
        \/ Writes(t) \cap (Writes(u) \cup Reads(u)) # {}
        \/ Reads(t) \cap Writes(u) # {}}

NoDisp == [i |-> 0, size |-> 0, cb |-> "none", cx |-> Null, on |-> Null]

NoCopy == [by |-> NoThread, op |-> "none", seen |-> {}, src |-> <<>>, dst |-> <<>>]

Copies == {"copyCtor", "copyAssign"}

\* a thread reading the source of a copy / running a dispatch
Copying(u) == tpc[u] = "in" /\ top[u].name \in Copies

Dispatching(u) == tpc[u] \in {"loop", "call", "cb", "done"}

Starts(t, call, position) ==
    /\ tpc[t] = "idle"
    /\ tpc' = [tpc EXCEPT ![t] = position]
    /\ top' = [top EXCEPT ![t] = call]
    /\ watch' = [watch EXCEPT ![t] = IF position = "in" /\ call.name \in Copies
                                     THEN {coll[call.o]} ELSE {}]
    /\ copied' = NoCopy
    /\ built' = <<>>
    /\ UNCHANGED removed
    /\ UNCHANGED <<coll, raced, disp, foreign, collVars, hVars, hcVars, kVars>>

\* Listeners::add: if (listener) { LOCK_WRITE_SAFE_OBJ(_listeners); ...
TAdd(t, c, x) ==
    /\ CanLock(t, c)
    /\ mtx' = lock(mtx, t, c)
    /\ Starts(t, [name |-> "add", c |-> c, o |-> c, x |-> x], "in")

\* Listeners::remove
TRemove(t, c, x) ==
    /\ CanLock(t, c)
    /\ mtx' = lock(mtx, t, c)
    /\ Starts(t, [name |-> "remove", c |-> c, o |-> c, x |-> x], "in")

\* Listeners::clear
TClear(t, c) ==
    /\ CanLock(t, c)
    /\ mtx' = lock(mtx, t, c)
    /\ Starts(t, [name |-> "clear", c |-> c, o |-> c, x |-> Null], "in")

\* Listeners::operator=(const Listeners&): LOCK_WRITE_SAFE_OBJ(_listeners)
TCopyAssign(t, c, o) ==
    /\ c # o
    /\ CanLock(t, c)
    /\ mtx' = lock(mtx, t, c)
    /\ Starts(t, [name |-> "copyAssign", c |-> c, o |-> o, x |-> Null], "wait")

\* ... then LOCK_READ_SAFE_OBJ(other._listeners)
TLockOther(t) ==
    /\ tpc[t] = "wait"
    /\ CanLock(t, top[t].o)
    /\ mtx' = lock(mtx, t, top[t].o)
    /\ tpc' = [tpc EXCEPT ![t] = "in"]
    /\ watch' = [watch EXCEPT ![t] = {coll[top[t].o]}]
    /\ UNCHANGED <<coll, top, built, raced, disp, foreign, copied, removed, collVars, hVars, hcVars, kVars>>

\* Listeners::operator=(Listeners&&): LOCK_WRITE_SAFE_OBJ(_listeners), then
\* tmp._listeners.take() with no lock on tmp
TMoveAssign(t, c, o) ==
    /\ c # o
    /\ CanLock(t, c)
    /\ mtx' = lock(mtx, t, c)
    /\ Starts(t, [name |-> "moveAssign", c |-> c, o |-> o, x |-> Null], "take")

\* a copy constructor that reads the source without its lock
TCopyCtor_mutNoLock(t, o) ==
    /\ UNCHANGED mtx
    /\ Starts(t, [name |-> "copyCtor", c |-> o, o |-> o, x |-> Null], "in")

\* Listeners::Listeners(const Listeners&): LOCK_READ_SAFE_OBJ(other._listeners)
TCopyCtor(t, o) ==
    /\ CanLock(t, o)
    /\ mtx' = lock(mtx, t, o)
    /\ Starts(t, [name |-> "copyCtor", c |-> o, o |-> o, x |-> Null], "in")

\* Listeners::Listeners(Listeners&&): tmp._listeners.take(), no lock at all
TMoveCtor(t, o) ==
    /\ UNCHANGED mtx
    /\ Starts(t, [name |-> "moveCtor", c |-> o, o |-> o, x |-> Null], "take")

\* the vectors after the operation of t has run undisturbed
Effect(t) ==
    LET op == top[t] IN
    IF op.name = "add" THEN [coll EXCEPT ![op.c] = add(coll[op.c], op.x).seq]
    ELSE IF op.name = "remove" THEN [coll EXCEPT ![op.c] = remove(coll[op.c], op.x).seq]
    ELSE IF op.name = "clear" THEN [coll EXCEPT ![op.c] = clear(coll[op.c]).seq]
    ELSE IF op.name = "copyAssign" THEN [coll EXCEPT ![op.c] = coll[op.o]]
    ELSE IF op.name = "moveAssign" THEN [coll EXCEPT ![op.c] = coll[op.o], ![op.o] = <<>>]
    ELSE IF op.name = "moveCtor" THEN [coll EXCEPT ![op.o] = <<>>]
    ELSE coll

IsCtor(t) == top[t].name \in {"copyCtor", "moveCtor"}

\* the operation of t completes and its lock guards go out of scope
TEnd(t) ==
    /\ tpc[t] \in {"in", "take"}
    /\ IF Racers(t) = {} /\ t \notin raced
       THEN /\ coll' = Effect(t)
            /\ built' = IF IsCtor(t) THEN coll[top[t].o] ELSE built
       ELSE \* a data race: the vectors this operation touches hold anything
            /\ coll' \in {f \in [Objs -> Torn \cup {coll[c] : c \in Objs}] :
                            \A c \in Objs \ Writes(t) : f[c] = coll[c]}
            /\ IF IsCtor(t) THEN built' \in Torn ELSE built' = built
    /\ raced' = (raced \cup Racers(t)) \ {t}
    /\ mtx' = unlockAll(mtx, t)
    /\ tpc' = [tpc EXCEPT ![t] = "idle"]
    /\ top' = [top EXCEPT ![t] = NoCall]
    /\ foreign' = (foreign \/ \E u \in Threads \ {t} :
                                 Dispatching(u) /\ coll'[top[u].c] # coll[top[u].c])
    /\ watch' = [u \in Threads |->
                    IF u = t THEN {}
                    ELSE IF Copying(u) THEN watch[u] \cup {coll'[top[u].o]}
                    ELSE watch[u]]
    /\ copied' = IF top[t].name \in Copies
                 THEN [by |-> t, op |-> top[t].name, seen |-> watch[t],
                       src |-> coll'[top[t].o],
                       dst |-> IF IsCtor(t) THEN built' ELSE coll'[top[t].c]]
                 ELSE copied
    /\ removed' = [c \in Objs |->
                      (IF top[t].name = "remove" /\ top[t].c = c /\ coll'[c] # coll[c]
                       THEN removed[c] \cup {top[t].x} ELSE removed[c])
                      \ Elems(coll'[c])]
    /\ UNCHANGED <<disp, collVars, hVars, hcVars, kVars>>

\* std::lock_guard blocks while another thread owns the mutex: a call of add,
\* remove or clear that finds it taken waits ...
TBlock(t, name, c, x) ==
    /\ ~CanLock(t, c)
    /\ UNCHANGED mtx
    /\ Starts(t, [name |-> name, c |-> c, o |-> c, x |-> x], "blocked")

\* ... until the owner releases it
TWake(t) ==
    /\ tpc[t] = "blocked"
    /\ CanLock(t, top[t].c)
    /\ mtx' = lock(mtx, t, top[t].c)
    /\ tpc' = [tpc EXCEPT ![t] = "in"]
    /\ UNCHANGED <<coll, top, built, raced, lkVars, collVars, hVars, hcVars, kVars>>

\* Listeners::invoke: LOCK_READ_SAFE_OBJ(_listeners), then Invoke<T>::make
TInvoke(t, c) ==
    /\ CanLock(t, c)
    /\ mtx' = lock(mtx, t, c)
    /\ Starts(t, [name |-> "invoke", c |-> c, o |-> c, x |-> Null], "loop")

\* a loop that tests i <= size before it reads listeners[i]
TLoop_mutOffByOne(t) ==
    /\ tpc[t] = "loop"
    /\ LET v == coll[top[t].c]
           k == disp[t].i
       IN IF k <= Len(v)
          THEN /\ disp' = [disp EXCEPT ![t].size = Len(v), ![t].cb = "none"]
               /\ tpc' = [tpc EXCEPT ![t] = "call"]
          ELSE /\ disp' = [disp EXCEPT ![t].size = Len(v)]
               /\ tpc' = [tpc EXCEPT ![t] = "done"]
    /\ UNCHANGED <<coll, mtx, top, built, raced, foreign, watch, copied, removed,
                   collVars, hVars, hcVars, kVars>>

\* const size_t size = listeners.size(); if (i < size) make(listeners[i], ...)
TLoop(t) ==
    /\ tpc[t] = "loop"
    /\ LET v == coll[top[t].c]
           k == disp[t].i
       IN IF k < Len(v)
          THEN IF make(v[k + 1])
               THEN /\ disp' = [disp EXCEPT ![t].size = Len(v), ![t].cb = "none",
                                             ![t].on = v[k + 1]]
                    /\ tpc' = [tpc EXCEPT ![t] = "call"]
               ELSE /\ disp' = [disp EXCEPT ![t].size = Len(v),
                                             ![t].i = advance(Len(v), Len(v), k)]
                    /\ UNCHANGED tpc
          ELSE /\ disp' = [disp EXCEPT ![t].size = Len(v)]
               /\ tpc' = [tpc EXCEPT ![t] = "done"]
    /\ UNCHANGED <<coll, mtx, top, built, raced, foreign, watch, copied, removed,
                   collVars, hVars, hcVars, kVars>>

\* the callback returns: if (listeners.size() >= size) ++i
TReturn(t) ==
    /\ tpc[t] = "call"
    /\ disp' = [disp EXCEPT ![t].i = advance(Len(coll[top[t].c]), disp[t].size, @),
                             ![t].on = Null]
    /\ tpc' = [tpc EXCEPT ![t] = "loop"]
    /\ UNCHANGED <<coll, mtx, top, built, raced, foreign, watch, copied, removed,
                   collVars, hVars, hcVars, kVars>>

CbNames == {"add", "remove", "clear", "contains", "size", "empty"}

\* the running callback calls a member of the same Listeners on the
\* dispatching thread (one such call per callback): the member takes the
\* recursive mutex a second time
TCb(t, name, x) ==
    /\ tpc[t] = "call"
    /\ disp[t].cb = "none"
    /\ CanLock(t, top[t].c)
    /\ mtx' = lock(mtx, t, top[t].c)
    /\ disp' = [disp EXCEPT ![t].cb = name, ![t].cx = x]
    /\ tpc' = [tpc EXCEPT ![t] = "cb"]
    /\ UNCHANGED <<coll, top, built, raced, foreign, watch, copied, removed,
                   collVars, hVars, hcVars, kVars>>

\* the member runs and returns to the callback, its lock guard is destroyed
TCbEnd(t) ==
    /\ tpc[t] = "cb"
    /\ LET c == top[t].c
           v == coll[c]
           w == IF disp[t].cb = "add" THEN add(v, disp[t].cx).seq
                ELSE IF disp[t].cb = "remove" THEN remove(v, disp[t].cx).seq
                ELSE IF disp[t].cb = "clear" THEN clear(v).seq
                ELSE v
       IN /\ coll' = [coll EXCEPT ![c] = w]
          /\ mtx' = unlock(mtx, c)
          /\ watch' = [u \in Threads |->
                          IF Copying(u) /\ top[u].o = c THEN watch[u] \cup {w} ELSE watch[u]]
    /\ disp' = [disp EXCEPT ![t].cb = "returned", ![t].cx = Null]
    /\ tpc' = [tpc EXCEPT ![t] = "call"]
    /\ removed' = [c \in Objs |-> removed[c] \ Elems(coll'[c])]
    /\ UNCHANGED <<top, built, raced, foreign, copied, collVars, hVars, hcVars, kVars>>

\* Listeners::invoke returns: the read lock is released
TDone(t) ==
    /\ tpc[t] = "done"
    /\ mtx' = unlockAll(mtx, t)
    /\ tpc' = [tpc EXCEPT ![t] = "idle"]
    /\ top' = [top EXCEPT ![t] = NoCall]
    /\ disp' = [disp EXCEPT ![t] = NoDisp]
    /\ UNCHANGED <<coll, built, raced, foreign, watch, copied, removed, collVars, hVars, hcVars, kVars>>

InitThreads ==
    /\ coll = [c \in Objs |-> <<>>]
    /\ mtx = [c \in Objs |-> [owner |-> NoThread, depth |-> 0]]
    /\ tpc = [t \in Threads |-> "idle"]
    /\ top = [t \in Threads |-> NoCall]
    /\ built = <<>>
    /\ raced = {}
    /\ disp = [t \in Threads |-> NoDisp]
    /\ foreign = FALSE
    /\ watch = [t \in Threads |-> {}]
    /\ copied = NoCopy
    /\ removed = [c \in Objs |-> {}]

NextMT ==
    \/ \E t \in Threads, c \in Objs, x \in Shared : TAdd(t, c, x)
    \/ \E t \in Threads, c \in Objs, x \in Shared : TRemove(t, c, x)
    \/ \E t \in Threads, c \in Objs : TClear(t, c)
    \/ \E t \in Threads, c \in Objs, o \in Objs : TCopyAssign(t, c, o)
    \/ \E t \in Threads : TLockOther(t)
    \/ \E t \in Threads, c \in Objs, o \in Objs : TMoveAssign(t, c, o)
    \/ \E t \in Threads, o \in Objs : TCopyCtor(t, o)
    \/ \E t \in Threads, o \in Objs : TMoveCtor(t, o)
    \/ \E t \in Threads : TEnd(t)

\* the handles passed by the threads of the locking view
LockArgs == 1..NumArgs

\* the members that lock every vector they touch, and a dispatch: threads add
\* to, remove from, clear and dispatch on "a", and copy "a" into "b" or into
\* a new object
NextLock ==
    \/ \E t \in Threads, x \in LockArgs : TAdd(t, "a", x)
    \/ \E t \in Threads, x \in LockArgs : TRemove(t, "a", x)
    \/ \E t \in Threads : TClear(t, "a")
    \/ \E t \in Threads : TCopyAssign(t, "b", "a")
    \/ \E t \in Threads : TLockOther(t)
    \/ \E t \in Threads : TCopyCtor(t, "a")
    \/ \E t \in Threads : TEnd(t)
    \/ \E t \in Threads, x \in LockArgs :
          \E name \in {"add", "remove"} : TBlock(t, name, "a", x)
    \/ \E t \in Threads : TBlock(t, "clear", "a", Null)
    \/ \E t \in Threads : TWake(t)
    \/ \E t \in Threads : TInvoke(t, "a")
    \/ \E t \in Threads : TLoop(t)
    \/ \E t \in Threads : TReturn(t)
    \/ \E t \in Threads, x \in LockArgs :
          \E name \in {"add", "remove", "contains"} : TCb(t, name, x)
    \/ \E t \in Threads : \E name \in {"clear", "size", "empty"} : TCb(t, name, Null)
    \/ \E t \in Threads : TCbEnd(t)
    \/ \E t \in Threads : TDone(t)


\* ------------------------------------- ThreadSafe = true and = false
\* One thread makes the same calls on a Listeners<T, false>, whose MutexType
\* is StubMutex (lock, try_lock and unlock do nothing), and on a
\* Listeners<T, true>, whose MutexType is std::recursive_mutex. The first is
\* `listeners` with its dispatch in pc, i, size; the second is coll["a"] with
\* mtx["a"] and the dispatch of thread "t1" in tpc, disp. A call that has to
\* wait for the mutex never returns, as there is no other thread to release it.
FlagThread == "t1"

FlagObj == "a"

FlagArgs == 1..NumArgs

\* a member function by name: the vector after the call and what it returns
call(name, s, x) ==
    IF name = "add" THEN add(s, x)
    ELSE IF name = "remove" THEN remove(s, x)
    ELSE IF name = "clear" THEN clear(s)
    ELSE IF name = "contains" THEN [seq |-> s, res |-> Bool(contains(s, x))]
    ELSE IF name = "empty" THEN [seq |-> s, res |-> Bool(empty(s))]
    ELSE [seq |-> s, res |-> ToString(sizeOf(s))]

\* the lock guard of a member of the Listeners<T, true> gets the mutex
SafeCan == CanLock(FlagThread, FlagObj)

\* the member runs on both objects; on the Listeners<T, true> under its lock
\* guard, which is gone again when the member returns
Both(name, x) ==
    LET u == call(name, listeners, x)
        v == call(name, coll[FlagObj], x)
    IN /\ listeners' = u.seq
       /\ last' = [op |-> name, arg |-> x, res |-> u.res]
       /\ pre' = listeners
       /\ firstAdded' = Seen
       /\ coll' = IF SafeCan THEN [coll EXCEPT ![FlagObj] = v.seq] ELSE coll
       /\ mtx' = IF SafeCan THEN unlock(lock(mtx, FlagThread, FlagObj), FlagObj) ELSE mtx
       /\ same' = (SafeCan /\ u.res = v.res /\ u.seq = v.seq)

\* add, remove, contains, clear, empty, size called outside a dispatch
FlagCall(name, x) ==
    /\ same
    /\ Outside
    /\ tpc[FlagThread] = "idle"
    /\ Both(name, x)
    /\ UNCHANGED <<dispatchVars, cbLog>>
    /\ UNCHANGED <<tpc, top, built, raced, lkVars, hVars, hcVars>>
    /\ UNCHANGED <<keyed, klast, kpre, klive, kremoved>>

\* Listeners::invoke on both: the read lock, then if (!listeners.empty())
FlagBegin ==
    /\ same
    /\ Outside
    /\ tpc[FlagThread] = "idle"
    /\ pc' = IF Len(listeners) # 0 THEN "loop" ELSE "done"
    /\ i' = 0
    /\ size' = 0
    /\ calls' = <<>>
    /\ start' = listeners
    /\ cbLog' = <<>>
    /\ last' = [op |-> "invoke", arg |-> Null, res |-> "none"]
    /\ pre' = listeners
    /\ firstAdded' = Seen
    /\ IF SafeCan
       THEN /\ mtx' = lock(mtx, FlagThread, FlagObj)
            /\ tpc' = [tpc EXCEPT ![FlagThread] =
                          IF Len(coll[FlagObj]) # 0 THEN "loop" ELSE "done"]
            /\ disp' = [disp EXCEPT ![FlagThread] = NoDisp]
       ELSE UNCHANGED <<mtx, tpc, disp>>
    /\ same' = (SafeCan /\ pc' = tpc'[FlagThread])
    /\ UNCHANGED <<listeners, coll, top, built, raced, foreign, watch, copied, removed, hVars, hcVars>>
    /\ UNCHANGED <<keyed, klast, kpre, klive, kremoved>>

\* one step of Invoke::make(vector) in both dispatches
FlagLoop ==
    /\ same
    /\ pc = "loop"
    /\ tpc[FlagThread] = "loop"
    /\ size' = Len(listeners)
    /\ IF i < Len(listeners)
       THEN /\ calls' = Append(calls, listeners[i + 1])
            /\ pc' = "call"
       ELSE /\ pc' = "done"
            /\ UNCHANGED calls
    /\ LET v == coll[FlagObj]
           k == disp[FlagThread].i
       IN /\ disp' = [disp EXCEPT ![FlagThread].size = Len(v), ![FlagThread].cb = "none",
                                    ![FlagThread].on = IF k < Len(v) THEN v[k + 1] ELSE Null]
          /\ tpc' = [tpc EXCEPT ![FlagThread] = IF k < Len(v) THEN "call" ELSE "done"]
          /\ same' = /\ pc' = tpc'[FlagThread]
                     /\ pc' = "call" => listeners[i + 1] = v[k + 1]
    /\ UNCHANGED <<listeners, i, start, cbLog, last, pre, firstAdded>>
    /\ UNCHANGED <<coll, mtx, top, built, raced, foreign, watch, copied, removed, hVars, hcVars>>
    /\ UNCHANGED <<keyed, klast, kpre, klive, kremoved>>

\* the callback returns in both: if (listeners.size() >= size) ++i
FlagReturn ==
    /\ same
    /\ pc = "call"
    /\ tpc[FlagThread] = "call"
    /\ i' = advance(Len(listeners), size, i)
    /\ pc' = "loop"
    /\ disp' = [disp EXCEPT ![FlagThread].i =
                    advance(Len(coll[FlagObj]), disp[FlagThread].size, @),
                             ![FlagThread].on = Null]
    /\ tpc' = [tpc EXCEPT ![FlagThread] = "loop"]
    /\ same' = (i' = disp'[FlagThread].i)
    /\ UNCHANGED <<listeners, size, calls, start, cbLog, last, pre, firstAdded>>
    /\ UNCHANGED <<coll, mtx, top, built, raced, foreign, watch, copied, removed, hVars, hcVars>>
    /\ UNCHANGED <<keyed, klast, kpre, klive, kremoved>>

\* the running callback calls a member of the Listeners that is dispatching
FlagCb(name, x) ==
    /\ same
    /\ pc = "call"
    /\ tpc[FlagThread] = "call"
    /\ Len(cbLog) < MaxCbOps
    /\ Both(name, x)
    /\ cbLog' = Append(cbLog, <<cur, name, x>>)
    /\ UNCHANGED dispatchVars
    /\ UNCHANGED <<tpc, top, built, raced, lkVars, hVars, hcVars>>
    /\ UNCHANGED <<keyed, klast, kpre, klive, kremoved>>

\* Listeners::invoke returns in both: the read lock is released
FlagEnd ==
    /\ same
    /\ pc = "done"
    /\ tpc[FlagThread] = "done"
    /\ pc' = "idle"
    /\ i' = 0
    /\ size' = 0
    /\ calls' = <<>>
    /\ start' = <<>>
    /\ cbLog' = <<>>
    /\ mtx' = unlockAll(mtx, FlagThread)
    /\ tpc' = [tpc EXCEPT ![FlagThread] = "idle"]
    /\ disp' = [disp EXCEPT ![FlagThread] = NoDisp]
    /\ UNCHANGED <<listeners, last, pre, firstAdded, same>>
    /\ UNCHANGED <<coll, top, built, raced, foreign, watch, copied, removed, hVars, hcVars>>
    /\ UNCHANGED <<keyed, klast, kpre, klive, kremoved>>

InitFlag == same = TRUE

NextFlag ==
    \/ \E name \in {"add", "remove", "contains"}, x \in FlagArgs \cup {Null} : FlagCall(name, x)
    \/ \E name \in {"clear", "empty", "size"} : FlagCall(name, Null)
    \/ FlagBegin
    \/ FlagLoop
    \/ FlagReturn
    \/ \E name \in {"add", "remove", "contains"}, x \in FlagArgs : FlagCb(name, x)
    \/ \E name \in {"clear", "empty", "size"} : FlagCb(name, Null)
    \/ FlagEnd

\* ----------------------------------------------------------- specification
\* no dispatch in progress, nothing recorded
InitDispatch ==
    /\ pc = "idle"
    /\ i = 0
    /\ size = 0
    /\ calls = <<>>
    /\ start = <<>>
    /\ cbLog = <<>>
    /\ last = NoOp
    /\ pre = <<>>
    /\ firstAdded = Null

\* Listeners::Listeners(): an empty vector
InitColl ==
    /\ listeners = <<>>
    /\ InitDispatch

Init ==
    /\ InitColl
    /\ InitThreads
    /\ kind = "plain"
    /\ InitSlot
    /\ InitCallers
    /\ InitKeyed
    /\ InitFlag

\* a Listener<T> of any of the three handle types
InitHolder ==
    /\ InitColl
    /\ InitThreads
    /\ kind \in Kinds
    /\ InitSlot
    /\ InitCallers
    /\ InitKeyed
    /\ InitFlag

\* weak handles: a Listener and a vector stored while every target lives
InitWeak ==
    /\ listeners \in WeakVectors
    /\ InitDispatch
    /\ InitThreads
    /\ kind = "weak"
    /\ InitSlot
    /\ InitCallers
    /\ InitKeyed
    /\ InitFlag

Next ==
    \/ \E x \in Reps : Add(x)
    \/ \E x \in Reps : Remove(x)
    \/ \E x \in Reps : Contains(x)
    \/ Clear
    \/ Empty
    \/ BeginInvoke
    \/ LoopStep
    \/ Return
    \/ EndInvoke
    \/ \E x \in Handles : CbAdd(x)
    \/ \E x \in Handles : CbRemove(x)
    \/ CbClear

Spec == Init /\ [][Next]_vars

SpecMT == Init /\ [][NextMT]_vars

SpecLock == Init /\ [][NextLock]_vars

\* one thread and two Listeners: add (the empty representation included),
\* remove, clear, both assignments and both constructors, no dispatch
MoveThread == "t1"

NextMoves ==
    \/ \E c \in Objs, x \in LockArgs \cup {Null} : TAdd(MoveThread, c, x)
    \/ \E c \in Objs, x \in LockArgs \cup {Null} : TRemove(MoveThread, c, x)
    \/ \E c \in Objs : TClear(MoveThread, c)
    \/ \E c \in Objs, o \in Objs : TCopyAssign(MoveThread, c, o)
    \/ TLockOther(MoveThread)
    \/ \E c \in Objs, o \in Objs : TMoveAssign(MoveThread, c, o)
    \/ \E o \in Objs : TCopyCtor(MoveThread, o)
    \/ \E o \in Objs : TMoveCtor(MoveThread, o)
    \/ TEnd(MoveThread)

SpecMoves == Init /\ [][NextMoves]_vars

\* the dispatching thread keeps running: the loop takes its next step, a member
\* called by a callback returns, the callback returns, invoke returns
FairDispatch ==
    \A t \in Threads :
        /\ WF_vars(TLoop(t))
        /\ WF_vars(TCbEnd(t))
        /\ WF_vars(TReturn(t))
        /\ WF_vars(TDone(t))

SpecLockLive == Init /\ [][NextLock]_vars /\ FairDispatch

NextHolder ==
    \/ \E x \in Targets \cup {Null} : HolderSet(x)
    \/ HolderReset
    \/ HolderEmpty
    \/ HolderInvoke
    \/ \E r \in Results : HolderInvokeR(r)
    \/ HolderMoveCtor
    \/ HolderMoveAssign
    \/ \E t \in Targets : Release(t)

SpecHolder == InitHolder /\ [][NextHolder]_vars

NextWeak ==
    \/ \E x \in Targets \cup {Null} : HolderSet(x)
    \/ HolderInvoke
    \/ \E t \in Targets : Release(t)
    \/ BeginInvoke
    \/ LoopStep
    \/ Return
    \/ EndInvoke

SpecWeak == InitWeak /\ [][NextWeak]_vars

\* the same with Listeners::contains called on the vector of weak handles:
\* `if (listener)` passes for a handle that is not the empty one and
\* std::find compares the stored handles with it; nothing in contains asks
\* whether the target still lives
NextWeakColl ==
    \/ NextWeak
    \/ \E x \in Targets \cup {Null} : Contains(x)

SpecWeakColl == InitWeak /\ [][NextWeakColl]_vars

NextHolderMT ==
    \/ \E c \in Callers, x \in Targets \cup {Null} : CallSet(c, x)
    \/ \E c \in Callers : CallReset(c)
    \/ \E c \in Callers : CallInvoke(c)
    \/ \E c \in Callers : Acquire(c)
    \/ \E c \in Callers : Write(c)
    \/ \E c \in Callers : Test(c)
    \/ \E c \in Callers : Use(c)
    \/ \E c \in Callers : Leave(c)

SpecHolderMT == InitHolder /\ [][NextHolderMT]_vars

\* two threads call set, reset and invoke on one Listener while the owners
\* outside the library let go of the targets
LifeCallers == {"t1", "t2"}

NextLife ==
    \/ \E c \in LifeCallers, x \in Targets \cup {Null} : LifeSet(c, x)
    \/ \E c \in LifeCallers : CallReset(c)
    \/ \E c \in LifeCallers : CallInvoke(c)
    \/ \E c \in LifeCallers : Acquire(c)
    \/ \E c \in LifeCallers : Write(c)
    \/ \E c \in LifeCallers : Test(c)
    \/ \E c \in LifeCallers : Use(c)
    \/ \E c \in LifeCallers : Leave(c)
    \/ \E t \in Targets : Drop(t)

SpecLife == InitHolder /\ [][NextLife]_vars

\* Listener<std::shared_ptr<T>, true> alone, used by two threads. A thread
\* inside set or reset keeps running; nothing is assumed about a thread inside
\* invoke, whose callback may take for ever.
InitShared == InitHolder /\ kind = "shared"

SharedCallers == {"t1", "t2"}

NextShared ==
    \/ \E c \in SharedCallers, x \in Targets \cup {Null} : CallSet(c, x)
    \/ \E c \in SharedCallers : CallReset(c)
    \/ \E c \in SharedCallers : CallInvoke(c)
    \/ \E c \in SharedCallers : Acquire(c)
    \/ \E c \in SharedCallers : Write(c)
    \/ \E c \in SharedCallers : Test(c)
    \/ \E c \in SharedCallers : Use(c)
    \/ \E c \in SharedCallers : Leave(c)

FairSetters ==
    \A u \in SharedCallers :
        /\ WF_vars(Setting(u) /\ Acquire(u))
        /\ WF_vars(Write(u))

SpecSharedLive == InitShared /\ [][NextShared]_vars /\ FairSetters

SpecKeyed == Init /\ [][NextKeyed]_vars

SpecFlag == Init /\ [][NextFlag]_vars

\* ================================================================ claims
\* C1 (as claimed): a dispatch over [A, B, C] (handles 1, 2, 3) in which the
\* only thing callbacks do is A calling remove(B) calls C exactly once, never
\* calls B, and calls A exactly once.
C1_Scenario ==
    /\ pc = "done"
    /\ start = <<1, 2, 3>>
    /\ cbLog # <<>>
    /\ \A k \in 1..Len(cbLog) : cbLog[k] = <<1, "remove", 2>>

C1_ReentrantRemoval ==
    C1_Scenario => Count(calls, 3) = 1 /\ Count(calls, 2) = 0 /\ Count(calls, 1) = 1

\* C2 (as claimed): whatever threads interleave add, remove, clear, copy and
\* move, no Listeners object ever stores two equal representations.
Unique(s) == \A j, k \in 1..Len(s) : s[j] = s[k] => j = k

C2_Uniqueness == (\A c \in Objs : Unique(coll[c])) /\ Unique(built)

\* C3: right after add(x) with x non-empty, contains(x) is true and another
\* add(x) returns Duplicate.
C3_AddThenContains ==
    (last.op = "add" /\ last.arg # Null)
        => contains(listeners, last.arg) /\ add(listeners, last.arg).res = "Duplicate"

C3_Witness ==
    last.op = "add" /\ last.arg # Null /\ last.res = "Ok" /\ Len(listeners) >= 2

\* C4: add of the empty representation returns NullInput and changes neither
\* the size nor the stored sequence.
C4_AddNull ==
    (last.op = "add" /\ last.arg = Null)
        => last.res = "NullInput" /\ listeners = pre /\ sizeOf(listeners) = sizeOf(pre)

C4_Witness == last.op = "add" /\ last.arg = Null /\ Len(listeners) >= 1

\* C5 (as claimed): the first successful add ever returns OkFirst and every
\* later successful add of another element returns Ok.
C5_FirstEverThenOk ==
    (last.op = "add" /\ ok(last.res))
        => IF firstAdded = Null
           THEN last.res = "OkFirst"
           ELSE last.arg # firstAdded => last.res = "Ok"

\* C5 (amended): the first successful add ever returns OkFirst; a later
\* successful add returns Ok when the collection was non-empty right before
\* it and OkFirst when it had been emptied again.
C5_FirstWhenEmpty ==
    (last.op = "add" /\ ok(last.res))
        => /\ firstAdded = Null => last.res = "OkFirst"
           /\ last.res = IF pre = <<>> THEN "OkFirst" ELSE "Ok"

C5_Witness ==
    last.op = "add" /\ last.res = "OkFirst" /\ firstAdded # Null /\ last.arg # firstAdded

\* C6: removing the only stored element returns OkLast and leaves the
\* collection empty with size 0; removing a stored element while another one
\* stays returns Ok.
C6_RemoveLast ==
    (last.op = "remove" /\ last.arg # Null /\ find(pre, last.arg) # 0)
        => IF Len(pre) = 1
           THEN last.res = "OkLast" /\ empty(listeners) /\ sizeOf(listeners) = 0
           ELSE last.res = "Ok" /\ ~empty(listeners)

C6_Witness ==
    last.op = "remove" /\ last.res = "OkLast" /\ pre = <<last.arg>> /\ listeners = <<>>

\* C7: remove of the empty representation and remove of a representation that
\* is not stored both return NullInput and leave the stored sequence as it was.
C7_RemoveNullInput ==
    (last.op = "remove" /\ (last.arg = Null \/ last.arg \notin Elems(pre)))
        => last.res = "NullInput" /\ listeners = pre

C7_Witness ==
    last.op = "remove" /\ last.arg # Null /\ last.arg \notin Elems(pre) /\ pre # <<>>

\* C8: a Listener::invoke that follows set(x) calls the operation exactly once,
\* on x's target, when x is non-empty, and makes no call when x is the empty
\* representation (a weak handle whose target has died counts as empty).
C8_SetThenInvoke ==
    (hlast.op = "invoke" /\ hlast.after = "set") =>
        /\ hlast.arg = Null => hcalls = <<>>
        /\ (kind = "weak" /\ hlast.res = "true") => hcalls = <<>>
        /\ (hlast.arg # Null /\ ~(kind = "weak" /\ hlast.res = "true")) =>
               hcalls = <<hlast.arg>>

C8_Witness ==
    /\ hlast.op = "invoke"
    /\ hlast.after = "set"
    /\ hlast.arg # Null
    /\ kind = "shared"
    /\ hlast.arg \notin owned
    /\ hcalls = <<hlast.arg>>

\* C9: reset() leaves the Listener as set(emptyValue) would; from then on,
\* whatever it held, empty() is true and every invoke makes no call, until a
\* non-empty representation is set.
C9_Reset ==
    /\ hlast.op = "reset" => slot = set(hlast.arg, Null)
    /\ cleared =>
        /\ slot = Null
        /\ hlast.op = "empty" => hlast.res = "true"
        /\ hlast.op = "invoke" => hcalls = <<>>

C9_Witness ==
    /\ cleared
    /\ hlast.op = "invoke"
    /\ hlast.after = "reset"
    /\ hlast.arg # Null
    /\ hlast.live
    /\ hcalls = <<>>

\* C10: a weak handle whose target died after the handle was stored and before
\* invoke gets no call, and no call goes to a dead target; the living targets
\* of the other handles of the vector are each still called, in order.
C10_WeakExpired ==
    /\ (hlast.op = "invoke" /\ hlast.after = "set" /\ hlast.live /\ hlast.res = "true") =>
           hcalls = <<>>
    /\ \A k \in 1..Len(calls) : calls[k] \in owned
    /\ pc = "done" => calls = SelectSeq(start, LAMBDA h : h \in owned)

C10_Witness ==
    /\ hlast.op = "invoke"
    /\ hlast.after = "set"
    /\ hlast.live
    /\ hlast.arg \notin owned
    /\ hcalls = <<>>
    /\ pc = "done"
    /\ \E j, k \in 1..Len(start) :
           /\ start[j] # Null /\ start[j] \notin owned
           /\ start[k] \in owned
           /\ calls = <<start[k]>>

\* C11: Listener::empty on a weak handle is true once the target is gone (and
\* for a handle that never had one), with no set or reset needed; on a plain
\* or shared handle it is true exactly when the stored handle is null.
C11_HolderEmpty ==
    hlast.op = "empty" =>
        hlast.res = Bool(IF kind = "weak"
                         THEN hlast.held = Null \/ hlast.dead
                         ELSE hlast.held = Null)

C11_Witness ==
    /\ kind = "weak"
    /\ hlast.op = "empty"
    /\ hlast.after = "set"
    /\ hlast.live
    /\ hlast.dead
    /\ hlast.res = "true"

\* C12 (as claimed, for a Listener): after a move construction or a move
\* assignment the moved-from Listener is empty and the destination holds what
\* the source held, for plain, shared and weak handles alike.
C12_MoveEmptiesSource ==
    hlast.op \in {"moveCtor", "moveAssign"} =>
        /\ emptyOf(slot)
        /\ moved = hlast.arg

\* C13: once every concurrent set (or reset) on a Listener has returned, the
\* slot holds the argument of the call whose write came last, and an invoke
\* during which the slot held one value only calls that value's target.
C13_LastWriterWins ==
    /\ (\A c \in Callers : ~Setting(c)) => slot = lastSet
    /\ \A c \in Callers :
          (caller[c].name = "invoke" /\ caller[c].pc = "ret" /\ Cardinality(caller[c].seen) = 1)
              => caller[c].seen = {caller[c].called}

C13_Witness ==
    \E c1, c2, c3 \in Callers :
        /\ caller[c1].name = "set" /\ caller[c1].pc = "ret" /\ caller[c1].ov
        /\ caller[c2].name = "set" /\ caller[c2].pc = "ret" /\ caller[c2].ov
        /\ caller[c1].x # caller[c2].x
        /\ caller[c2].x # Null
        /\ slot = caller[c2].x
        /\ caller[c3].name = "invoke" /\ caller[c3].pc = "ret"
        /\ caller[c3].seen = {slot}
        /\ caller[c3].called = slot

\* C14: an invoke that overlaps set or reset calls tests and calls one and the
\* same value, a value the slot held during the invoke: one call on that
\* target, or none when the value was empty, and never a call through an empty
\* representation.
C14_NoCheckThenUse ==
    \A c \in Callers :
        (caller[c].name = "invoke" /\ caller[c].pc = "ret") =>
            /\ ~caller[c].fault
            /\ caller[c].called = caller[c].snap
            /\ caller[c].snap \in caller[c].seen

C14_Witness ==
    \E c \in Callers :
        /\ kind = "shared"
        /\ caller[c].name = "invoke"
        /\ caller[c].pc = "ret"
        /\ caller[c].ov
        /\ Cardinality(caller[c].seen) > 1
        /\ caller[c].called # Null
        /\ caller[c].called # slot

\* C17: while no callback has called add, remove or clear, a dispatch calls
\* the stored listeners in index order, each once: the calls made so far are
\* a prefix of the vector, and all of it when the dispatch is done.
C17_DispatchOrder ==
    (pc \in {"loop", "call", "done"} /\ cbLog = <<>>) =>
        /\ listeners = start
        /\ Len(calls) <= Len(start)
        /\ calls = SubSeq(start, 1, Len(calls))
        /\ pc = "done" => calls = start

C17_Witness ==
    pc = "done" /\ cbLog = <<>> /\ Len(start) = NumHandles /\ calls = start

\* C18: clear returns true exactly when the collection held something right
\* before the call; afterwards size() is 0 and contains(x) is false for all x.
C18_Clear ==
    last.op = "clear" =>
        /\ last.res = Bool(~empty(pre))
        /\ sizeOf(listeners) = 0
        /\ \A x \in Reps : ~contains(listeners, x)

C18_Witness ==
    last.op = "clear" /\ last.res = "true" /\ Len(pre) > 1 /\ listeners = <<>>

\* C19: ok(add(x)) is true exactly when x was appended and the size grew by
\* one (Ok, OkFirst); ok(remove(x)) is true exactly when one element equal to x
\* was erased and the size shrank by one (Ok, OkLast); on NullInput and
\* Duplicate ok is false and the sequence is unchanged.
C19_OkMatchesChange ==
    /\ last.op = "add" =>
          /\ ok(last.res) <=> (listeners = Append(pre, last.arg)
                                 /\ sizeOf(listeners) = sizeOf(pre) + 1)
          /\ ok(last.res) <=> last.res \in {"Ok", "OkFirst"}
          /\ ~ok(last.res) => (last.res \in {"NullInput", "Duplicate"} /\ listeners = pre)
    /\ last.op = "remove" =>
          /\ ok(last.res) <=> (/\ \E k \in 1..Len(pre) :
                                     pre[k] = last.arg /\ listeners = erase(pre, k)
                                 /\ sizeOf(listeners) = sizeOf(pre) - 1)
          /\ ok(last.res) <=> last.res \in {"Ok", "OkLast"}
          /\ ~ok(last.res) => (last.res = "NullInput" /\ listeners = pre)

C19_Witness ==
    /\ last.op = "add"
    /\ last.res = "Duplicate"
    /\ ~ok(last.res)
    /\ listeners = pre
    /\ Len(pre) > 1

\* C15: while a thread is inside Listeners::invoke on an object, no other
\* thread is inside the body of add, remove, clear or an assignment to that
\* object, and no other thread's operation has changed its vector: the vector
\* changes only through the callbacks of the dispatching thread.
C15_LockHeldForDispatch ==
    /\ ~foreign
    /\ \A t \in Threads : Dispatching(t) =>
          /\ mtx[top[t].c].owner = t
          /\ \A u \in Threads \ {t} :
                ~(tpc[u] \in {"in", "take"} /\ top[t].c \in Writes(u))

C15_Witness ==
    \E t, u \in Threads :
        /\ tpc[t] = "call"
        /\ disp[t].i > 0
        /\ disp[t].cb = "returned"
        /\ tpc[u] = "blocked"
        /\ top[u].name = "remove"
        /\ top[u].c = top[t].c
        /\ top[u].x \in Elems(coll[top[t].c])

\* C16: a callback run by invoke that calls size, empty, contains, add, remove
\* or clear on the same Listeners from the dispatching thread can always take
\* the recursive mutex again; inside the member the mutex is held twice by
\* that thread, and the dispatch goes on afterwards.
C16_ReentrantLock ==
    \A t \in Threads :
        /\ tpc[t] = "call" => CanLock(t, top[t].c)
        /\ tpc[t] = "cb" => mtx[top[t].c] = [owner |-> t, depth |-> 2]
        /\ tpc[t] \in {"loop", "call", "done"} => mtx[top[t].c] = [owner |-> t, depth |-> 1]

C16_Witness ==
    \E t \in Threads :
        /\ tpc[t] = "done"
        /\ disp[t].cb = "returned"
        /\ coll[top[t].c] = <<>>

\* C20: a finished copy construction or copy assignment yields a vector equal
\* to a value the source held at one instant of the copy, while other threads
\* add to, remove from and clear the source; the source is left holding that
\* same value when the copy returns.
C20_CopySnapshot ==
    copied.by # NoThread =>
        /\ copied.dst \in copied.seen
        /\ copied.src = copied.dst

C20_Witness ==
    /\ copied.op = "copyAssign"
    /\ Len(copied.dst) = 2
    /\ copied.dst = coll["b"]
    /\ \E u \in Threads :
          tpc[u] = "blocked" /\ top[u].c = "a" /\ top[u].name \in {"add", "remove", "clear"}

\* the callbacks of the current dispatch called nothing but remove of their
\* own listener
SelfRemovalsOnly ==
    /\ cbLog # <<>>
    /\ \A k \in 1..Len(cbLog) : cbLog[k][2] = "remove" /\ cbLog[k][3] = cbLog[k][1]

IsPrefix(s, t) == Len(s) <= Len(t) /\ SubSeq(t, 1, Len(s)) = s

\* C26: in a dispatch whose callbacks do nothing but remove their own
\* listener, the calls made so far are the first elements of the vector as it
\* was when the dispatch began, in order, so the element after a listener that
\* removed itself is called next; the finished dispatch has called every
\* element of that vector exactly once.
C26_SelfRemoval ==
    (pc \in {"loop", "call", "done"} /\ SelfRemovalsOnly) =>
        /\ IsPrefix(calls, start)
        /\ pc = "done" => calls = start

C26_Witness ==
    /\ pc = "done"
    /\ SelfRemovalsOnly
    /\ start = <<1, 2, 3>>
    /\ cbLog = <<<<1, "remove", 1>>, <<2, "remove", 2>>>>
    /\ listeners = <<3>>
    /\ calls = start

\* C27: a step of the dispatch loop calls listeners[i] only when i is smaller
\* than the size it has just read, and stops only when i is not smaller; the
\* calls a callback makes leave i alone; when the callback returns, i grows by
\* exactly one if the size read again is not smaller than the size read before
\* the call, and stays as it is otherwise.
C27_IndexRule ==
    [][ /\ (pc = "loop" /\ pc' = "call") =>
              /\ i < Len(listeners)
              /\ size' = Len(listeners)
              /\ calls' = Append(calls, listeners[i + 1])
              /\ i' = i
        /\ (pc = "loop" /\ pc' = "done") => i >= Len(listeners)
        /\ (pc = "call" /\ pc' = "call") => i' = i /\ size' = size
        /\ (pc = "call" /\ pc' = "loop") =>
              i' = (IF Len(listeners) >= size THEN i + 1 ELSE i)
      ]_vars

\* the size shrank during the second call and the index stayed
C27_Witness ==
    /\ pc = "loop"
    /\ Len(listeners) < size
    /\ Len(calls) = 2
    /\ i = 1

\* C30: whenever the dispatch loop has read listeners[i] and is running that
\* element's callback, i is smaller than the size the loop read for that step,
\* and until the callback calls back into the Listeners that size is the
\* vector's size, whatever earlier callbacks added, removed or cleared and
\* whatever the other thread is waiting to do.
C30_IndexInRange ==
    \A t \in Threads :
        tpc[t] = "call" =>
            /\ disp[t].i < disp[t].size
            /\ disp[t].cb = "none" => disp[t].size = Len(coll[top[t].c])

\* the last element is read after earlier callbacks changed the vector
C30_Witness ==
    \E t \in Threads :
        /\ tpc[t] = "call"
        /\ disp[t].cb = "none"
        /\ disp[t].i = 1
        /\ coll[top[t].c] = <<2, 1>>

\* C24: every dispatch a thread has begun is left again: Listeners::invoke
\* returns, whatever the callbacks add to, remove from or clear in the same
\* Listeners, each callback returning after its call.
C24_DispatchTerminates ==
    \A t \in Threads : Dispatching(t) ~> (tpc[t] = "idle")

\* a dispatch ran to its end after one callback removed and a later one added
C24_Witness ==
    \E t \in Threads :
        /\ tpc[t] = "done"
        /\ disp[t].cb = "returned"
        /\ disp[t].i = 2
        /\ coll[top[t].c] = <<2, 1>>

\* h was stored when the current dispatch began and no callback of the
\* dispatch removed it or cleared the vector
Stays(h) ==
    /\ h \in Elems(start)
    /\ \A k \in 1..Len(cbLog) :
          /\ cbLog[k][2] # "clear"
          /\ ~(cbLog[k][2] = "remove" /\ cbLog[k][3] = h)

\* C28 (as claimed): a finished dispatch has called every listener that was
\* stored for the whole of the dispatch at least once, whatever the callbacks
\* added and removed.
C28_StayersInvoked ==
    pc = "done" => \A h \in Handles : Stays(h) => Count(calls, h) >= 1

\* the vector after the first k calls the callbacks of the dispatch made
RECURSIVE AfterCb(_)
AfterCb(k) ==
    IF k = 0 THEN start
    ELSE LET v == AfterCb(k - 1)
             e == cbLog[k]
         IN IF e[2] = "add" THEN add(v, e[3]).seq
            ELSE IF e[2] = "remove" THEN remove(v, e[3]).seq
            ELSE clear(v).seq

\* the k-th call of a callback was an add that returned Ok for a listener not
\* stored when the dispatch began, and nothing removed that listener later
AppendedToStay(k) ==
    /\ cbLog[k][2] = "add"
    /\ cbLog[k][3] \notin Elems(start)
    /\ add(AfterCb(k - 1), cbLog[k][3]).res = "Ok"
    /\ \A j \in (k + 1)..Len(cbLog) :
          /\ cbLog[j][2] # "clear"
          /\ ~(cbLog[j][2] = "remove" /\ cbLog[j][3] = cbLog[k][3])

\* C29 (as claimed): a finished dispatch has called every listener that one of
\* its callbacks appended with result Ok and that was not removed again.
C29_AppendedInvoked ==
    pc = "done" =>
        \A k \in 1..Len(cbLog) : AppendedToStay(k) => Count(calls, cbLog[k][3]) >= 1

C22_AbsentReturnsDefault ==
    (hlast.op = "invokeR" /\ (hlast.held = Null \/ (kind = "weak" /\ hlast.dead))) =>
        /\ hlast.res = DefaultR
        /\ hcalls = <<>>
        /\ slot = hlast.held

\* invokeR on a weak handle that was set and whose target has died since
C22_Witness ==
    /\ hlast.op = "invokeR"
    /\ kind = "weak"
    /\ hlast.held # Null
    /\ hlast.dead
    /\ hlast.res = DefaultR
    /\ slot = hlast.held

\* C25 (as claimed): whatever handle the SafeObj of a Listener stores, plain,
\* shared or weak, take() hands out that handle and leaves the default (empty)
\* handle behind.
C25_TakeLeavesDefault ==
    /\ take(slot).val = slot
    /\ take(slot).left = Null

\* C23: one thread making the same calls of add, remove, contains, clear,
\* size, empty and invoke, callbacks that call these members included, on a
\* Listeners<T, false> and on a Listeners<T, true> gets the same result from
\* every call, the same callback calls in the same order and the same vector
\* in both, and no call on the Listeners<T, true> waits for its mutex, which
\* is free again whenever no dispatch is running.
C23_FlagEquivalence ==
    /\ same
    /\ listeners = coll[FlagObj]
    /\ pc = tpc[FlagThread]
    /\ pc # "idle" => i = disp[FlagThread].i
    /\ mtx[FlagObj] = (IF pc = "idle" THEN [owner |-> NoThread, depth |-> 0]
                                      ELSE [owner |-> FlagThread, depth |-> 1])

\* both dispatches ended after a callback removed its listener and added one
C23_Witness ==
    /\ pc = "done"
    /\ same
    /\ start = <<1, 2>>
    /\ cbLog = <<<<1, "remove", 1>>, <<2, "add", 1>>>>
    /\ calls = <<1, 2, 1>>
    /\ coll[FlagObj] = <<2, 1>>

\* C32: add returns OkFirst exactly when it stored its argument and the
\* vector was empty right before the call; remove returns OkLast exactly when
\* it erased an element and the vector is empty right after the call.
C32_FirstLastIff ==
    /\ last.op = "add" =>
          (last.res = "OkFirst" <=> (Len(listeners) = Len(pre) + 1 /\ Len(pre) = 0))
    /\ last.op = "remove" =>
          (last.res = "OkLast" <=> (Len(listeners) = Len(pre) - 1 /\ Len(listeners) = 0))

\* a callback removed the only element left while the dispatch was running
C32_Witness ==
    /\ InCallback
    /\ last.op = "remove"
    /\ last.res = "OkLast"
    /\ Len(start) > 1
    /\ listeners = <<>>

\* C33: a successful add puts its argument after the elements stored before,
\* which keep their places; a successful remove takes out one element equal
\* to its argument and the others keep their relative order; an add that
\* returns Duplicate leaves the vector as it was.
C33_OrderKept ==
    /\ (last.op = "add" /\ last.res \in {"Ok", "OkFirst"}) =>
          /\ Len(listeners) = Len(pre) + 1
          /\ listeners[Len(listeners)] = last.arg
          /\ \A k \in 1..Len(pre) : listeners[k] = pre[k]
    /\ (last.op = "remove" /\ last.res \in {"Ok", "OkLast"}) =>
          \E k \in 1..Len(pre) :
              /\ pre[k] = last.arg
              /\ Len(listeners) = Len(pre) - 1
              /\ \A j \in 1..(k - 1) : listeners[j] = pre[j]
              /\ \A j \in k..Len(listeners) : listeners[j] = pre[j + 1]
    /\ (last.op = "add" /\ last.res = "Duplicate") => listeners = pre

\* the middle one of three elements was removed
C33_Witness ==
    /\ last.op = "remove"
    /\ last.res = "Ok"
    /\ Len(pre) = 3
    /\ pre[2] = last.arg
    /\ listeners = <<pre[1], pre[3]>>

\* C37: contains(x) returns true exactly when x is not the empty
\* representation and an element equal to x is stored, so it returns false
\* for the empty representation; contains, size and empty leave the vector
\* as it was, and size and empty report its length.
C37_QueriesPure ==
    /\ last.op = "contains" =>
          /\ last.res = "true" <=> (last.arg # Null /\ \E k \in 1..Len(pre) : pre[k] = last.arg)
          /\ last.res \in {"true", "false"}
          /\ listeners = pre
    /\ last.op = "size" => (listeners = pre /\ last.res = ToString(Len(pre)))
    /\ last.op = "empty" => (listeners = pre /\ last.res = Bool(Len(pre) = 0))

\* a callback asked for an element that is not stored while others are
C37_Witness ==
    /\ pc = "call"
    /\ last.op = "contains"
    /\ last.res = "false"
    /\ last.arg # Null
    /\ Len(listeners) > 0

\* C31: no Listeners of plain or shared handles ever stores the empty
\* representation: not after add (which is also offered the empty
\* representation), remove or clear, not the target of a copy or move
\* assignment, not an object built by the copy or the move constructor, and
\* not the source a move has emptied.
C31_NoNullStored ==
    /\ \A c \in Objs : \A k \in 1..Len(coll[c]) : coll[c][k] # Null
    /\ \A k \in 1..Len(built) : built[k] # Null

\* two adds to "a", a move of "a" into "b", then a copy of "b"
C31_Witness ==
    /\ copied.op = "copyCtor"
    /\ built = <<2, 1>>
    /\ coll["b"] = <<2, 1>>
    /\ coll["a"] = <<>>

\* the callback of c's invoke may be running: c holds the read lock, has
\* tested the handle and has not returned from Listener::invoke
InBody(c) == caller[c].name = "invoke" /\ caller[c].pc \in {"test", "use", "ret"}

\* u's set or reset has written the slot or is about to, past its lock guard
Storing(u) == caller[u].name \in {"set", "reset"} /\ caller[u].pc \in {"set", "ret"}

\* C39: on a Listener of a plain or weak handle, while the callback of one
\* thread's invoke may be running no other thread's set or reset is past its
\* lock guard, so none completes; hence when a set or reset has written and
\* is returning, no invoke is between its test of the handle and its return.
C39_SetWaitsForInvoke ==
    kind # "shared" =>
        \A c \in Callers : \A u \in Callers \ {c} : ~(InBody(c) /\ Storing(u))

\* a reset waits at its lock guard while another thread's callback runs
C39_Witness ==
    \E c \in Callers : \E u \in Callers \ {c} :
        /\ kind = "weak"
        /\ caller[c].name = "invoke"
        /\ caller[c].pc = "use"
        /\ caller[c].snap # Null
        /\ hmtx = c
        /\ caller[u].name = "reset"
        /\ caller[u].pc = "enter"

\* C40: on a Listener of a shared handle every set and reset that has been
\* called gets to write the slot and return whatever the threads inside
\* invoke do, also when a callback never returns; and an invoke calls a value
\* the slot held at its start or was given while it ran, never one that a set
\* or reset replaced before the invoke started.
C40_SetNeverWaits ==
    /\ \A u \in Callers :
          (kind = "shared" /\ Setting(u)) ~> (caller[u].pc = "ret" /\ ~Setting(u))
    /\ [](kind = "shared" =>
            \A c \in Callers :
                (caller[c].name = "invoke" /\ caller[c].pc = "ret")
                    => caller[c].called \in caller[c].seen)

\* a set has written while another thread's callback on the previous target
\* is still to run
C40_Witness ==
    \E c \in Callers : \E u \in Callers \ {c} :
        /\ kind = "shared"
        /\ caller[c].name = "invoke"
        /\ caller[c].pc = "use"
        /\ caller[c].snap # Null
        /\ caller[u].name = "set"
        /\ caller[u].pc = "ret"
        /\ caller[u].x # Null
        /\ slot = caller[u].x
        /\ slot # caller[c].snap

\* C35: while the callback an invoke of a Listener of a shared or a weak
\* handle makes is running, its target has not been destroyed, whatever set,
\* reset and the owners outside the library have done since the invoke read
\* the handle.
C35_TargetOutlivesCall ==
    \A c \in Callers :
        (kind \in {"shared", "weak"} /\ caller[c].name = "invoke" /\ caller[c].pc = "use")
            => (caller[c].snap # Null /\ caller[c].snap \notin gone)

\* the callback runs on a target that another thread's reset took out of the
\* slot and that no shared_ptr outside the library owns any more
C35_Witness ==
    \E c \in Callers : \E u \in Callers \ {c} :
        /\ kind = "shared"
        /\ caller[c].name = "invoke"
        /\ caller[c].pc = "use"
        /\ caller[c].snap \notin owned
        /\ slot = Null
        /\ caller[u].name = "reset"
        /\ caller[u].pc = "ret"

\* C34: once a remove(x) that a thread called outside any dispatch has
\* erased x from a Listeners<T, true> and returned, no thread is inside a
\* callback that this Listeners made on x, and none begins until some add or
\* assignment has stored x again.
C34_NoCallAfterRemove ==
    \A u \in Threads :
        tpc[u] \in {"call", "cb"} => disp[u].on \notin removed[top[u].c]

\* a dispatch that began after another thread's remove(1) returned is
\* calling the element that is left
C34_Witness ==
    \E u \in Threads :
        /\ tpc[u] = "call"
        /\ disp[u].on = 2
        /\ removed["a"] = {1}
        /\ coll["a"] = <<2>>

\* C36: copy assignment never deadlocks: there is no state in which two
\* threads are both inside operator=(const Listeners&), each holding the lock
\* of its own target and waiting for the lock of its source, which the other
\* one holds, so that neither assignment can complete.
C36_CopyAssignNoDeadlock ==
    \A t \in Threads : \A u \in Threads \ {t} :
        ~(/\ tpc[t] = "wait" /\ top[t].name = "copyAssign"
          /\ tpc[u] = "wait" /\ top[u].name = "copyAssign"
          /\ mtx[top[t].o].owner = u
          /\ mtx[top[u].o].owner = t)

====
